---- MODULE Spec2Model ----
(***************************************************************************)
(* State-machine model of SSEService (src/src/services/sseService.js): the *)
(* primary stream session, its reconnection policy, the listener registry, *)
(* the connection-status broadcaster and the connection probe.             *)
(*                                                                         *)
(* The methods of the class are operators on a record s holding the        *)
(* object's fields and its environment (the EventSource handles created so *)
(* far, the pending setTimeout callbacks, the error handlers suspended on  *)
(* the token-refresh hook).  An action applies one caller operation or one *)
(* callback to the current state and stores the resulting record.          *)
(***************************************************************************)
EXTENDS Integers, Sequences, FiniteSets, TLC

VARIABLES
    eventSource,          \* this.eventSource: 0 is null, else an index of handles
    reconnectAttempts,    \* this.reconnectAttempts
    listeners,            \* this.listeners: Map event name -> array of callbacks
    isConnected,          \* this.isConnected
    shouldReconnect,      \* this.shouldReconnect
    connectionListeners,  \* this.connectionListeners
    lastToken,            \* this.lastToken ("" is null)
    tokenRefreshCallback, \* this.tokenRefreshCallback is set (TRUE) or null
    handles,              \* every EventSource created by connect(), in order
    timers,               \* pending setTimeout callbacks of handleReconnect
    refreshing,           \* onerror handlers suspended at the await of line 80
    callerDisconnected,   \* history: the caller has called disconnect()
    apiBaseUrl,           \* API_BASE_URL, imported from ../api.js
    probes,               \* the calls of testConnection() made so far
    step                  \* the operation of the last step and what it emitted

vars == <<eventSource, reconnectAttempts, listeners, isConnected,
          shouldReconnect, connectionListeners, lastToken,
          tokenRefreshCallback, handles, timers, refreshing,
          callerDisconnected, apiBaseUrl, probes, step>>

----------------------------------------------------------------------------
(* Program constants *)

maxReconnectAttempts == 5
reconnectDelay == 1000

\* EventSource.readyState
CONNECTING == 0
OPEN == 1
CLOSED == 2

(* Bounds of the model *)

\* EventSource objects created in one run
MaxHandles == 3
\* registrations held by the registry and the status broadcaster together
MaxRegistrations == 3
\* calls of testConnection() in one run
MaxProbes == 1

\* Values of API_BASE_URL: a plain origin and a tunnelling-proxy origin
BaseUrls == {"https://api.example.com", "https://abc.ngrok.io"}

\* API_BASE_URL.includes('ngrok')
includesNgrok(url) == url = "https://abc.ngrok.io"

\* Non-empty tokens; NoToken is a missing (falsy) token
Tokens == {"t1", "t2"}
NoToken == ""

\* Callbacks the application registers; the ones in Throwing throw when called
Callbacks == {"f", "g"}
Throwing == {"g"}
\* A callback that unregisters itself when called, with off(event, itself)
\* or offConnectionChange(itself)
Unsubscribing == {"u"}

\* Event names the application listens to
EventNames == {"notification", "connected"}

\* Named events wired by connect(): the handlers of lines 105-193 parse and
\* re-emit, the handler of 'connected' only parses, 'heartbeat' does nothing
Forwarded == {"notification"}
WiredNames == Forwarded \cup {"connected", "heartbeat"}

\* event.data texts the transport delivers
Payloads == {"[1]", "7", "[1"}

\* What the token-refresh hook can settle with: a token, an empty value, or a
\* rejection
Rejected == "<rejected>"
RefreshOutcomes == Tokens \cup {NoToken, Rejected}

----------------------------------------------------------------------------
(* The object and its environment as one record *)

Self ==
    [eventSource |-> eventSource, reconnectAttempts |-> reconnectAttempts,
     listeners |-> listeners, isConnected |-> isConnected,
     shouldReconnect |-> shouldReconnect,
     connectionListeners |-> connectionListeners, lastToken |-> lastToken,
     tokenRefreshCallback |-> tokenRefreshCallback, handles |-> handles,
     timers |-> timers, refreshing |-> refreshing,
     callerDisconnected |-> callerDisconnected, apiBaseUrl |-> apiBaseUrl,
     probes |-> probes, step |-> step]

Store(s) ==
    /\ eventSource' = s.eventSource
    /\ reconnectAttempts' = s.reconnectAttempts
    /\ listeners' = s.listeners
    /\ isConnected' = s.isConnected
    /\ shouldReconnect' = s.shouldReconnect
    /\ connectionListeners' = s.connectionListeners
    /\ lastToken' = s.lastToken
    /\ tokenRefreshCallback' = s.tokenRefreshCallback
    /\ handles' = s.handles
    /\ timers' = s.timers
    /\ refreshing' = s.refreshing
    /\ callerDisconnected' = s.callerDisconnected
    /\ apiBaseUrl' = s.apiBaseUrl
    /\ probes' = s.probes
    /\ step' = s.step

\* The record of a step that starts now: nothing emitted, notified or invoked
\* yet, no exception escaped
NewStep(op, arg, name) ==
    [op |-> op, arg |-> arg, name |-> name, emitted |-> <<>>,
     notified |-> <<>>, invoked |-> <<>>, uncaught |-> FALSE]

Begin(op, arg, name) == [Self EXCEPT !.step = NewStep(op, arg, name)]

RemoveAt(seq, i) == SubSeq(seq, 1, i - 1) \o SubSeq(seq, i + 1, Len(seq))

----------------------------------------------------------------------------
(* Listener registry and status broadcaster *)

\* callback(arg): whether the call throws
Throws(callback, arg) == callback \in Throwing

\* indexOf taken for lastIndexOf: the last index holding cb
lastIndexOf(callbacks, cb) ==
    IF \E i \in 1..Len(callbacks) : callbacks[i] = cb
    THEN CHOOSE i \in 1..Len(callbacks) :
            /\ callbacks[i] = cb
            /\ \A j \in (i + 1)..Len(callbacks) : callbacks[j] # cb
    ELSE 0

\* Array.prototype.indexOf: the first index holding cb, 0 when there is none
\* (the code's -1)
indexOf(callbacks, cb) ==
    IF \E i \in 1..Len(callbacks) : callbacks[i] = cb
    THEN CHOOSE i \in 1..Len(callbacks) :
            /\ callbacks[i] = cb
            /\ \A j \in 1..(i - 1) : callbacks[j] # cb
    ELSE 0

on(s, event, callback) ==
    LET had == IF event \in DOMAIN s.listeners THEN s.listeners[event] ELSE <<>>
    IN  [s EXCEPT !.listeners =
            [e \in DOMAIN s.listeners \cup {event} |->
                IF e = event THEN Append(had, callback) ELSE s.listeners[e]]]

off(s, event, callback) ==
    IF event \in DOMAIN s.listeners
    THEN LET index == indexOf(s.listeners[event], callback)
         IN  IF index > 0
             THEN [s EXCEPT !.listeners[event] = RemoveAt(@, index)]
             ELSE s
    ELSE s

onConnectionChange(s, callback) ==
    [s EXCEPT !.connectionListeners = Append(@, callback)]

offConnectionChange(s, callback) ==
    LET index == indexOf(s.connectionListeners, callback)
    IN  IF index > 0
        THEN [s EXCEPT !.connectionListeners = RemoveAt(@, index)]
        ELSE s

\* The array a fan-out walks: the callbacks of an event name, or the status
\* listeners
StatusListeners == "<connectionListeners>"

Held(s, registry) ==
    IF registry = StatusListeners THEN s.connectionListeners
    ELSE IF registry \in DOMAIN s.listeners THEN s.listeners[registry]
    ELSE <<>>

\* callback(arg), called from the fan-out over registry: the call is made,
\* and an unsubscribing callback removes itself from the array being walked
call(s, registry, callback, arg) ==
    LET s1 == [s EXCEPT !.step.invoked =
                            Append(@, [cb |-> callback, arg |-> arg])]
    IN  IF callback \in Unsubscribing
        THEN IF registry = StatusListeners
             THEN offConnectionChange(s1, callback)
             ELSE off(s1, registry, callback)
        ELSE s1

\* forEach without the try/catch: the first throw ends the loop and leaves it
RECURSIVE forEachUnguarded(_, _, _, _)
forEachUnguarded(s, registry, arg, i) ==
    IF i > Len(Held(s, registry))
    THEN s
    ELSE LET callback == Held(s, registry)[i]
             s1 == call(s, registry, callback, arg)
         IN  IF Throws(callback, arg)
             THEN [s1 EXCEPT !.step.uncaught = TRUE]
             ELSE forEachUnguarded(s1, registry, arg, i + 1)

\* array.forEach(callback => { try { callback(arg) } catch {} }) from index i
\* on.  forEach visits the indices in order and reads the array anew at each
\* one, so after a callback has spliced an element out the elements behind
\* it have moved down by one.  A throw is caught inside the iteration, which
\* then goes on to the next one.
RECURSIVE forEachCaught(_, _, _, _)
forEachCaught(s, registry, arg, i) ==
    IF i > Len(Held(s, registry))
    THEN s
    ELSE LET callback == Held(s, registry)[i]
             s1 == call(s, registry, callback, arg)
         IN  \* whether or not Throws(callback, arg), the loop goes on
             forEachCaught(s1, registry, arg, i + 1)

emit(s, event, data) ==
    LET s1 == [s EXCEPT !.step.emitted =
                            Append(@, [event |-> event, data |-> data])]
    IN  IF event \in DOMAIN s.listeners
        THEN forEachCaught(s1, event, data, 1)
        ELSE s1

notifyConnectionListeners(s, status) ==
    forEachCaught([s EXCEPT !.step.notified = Append(@, status)],
                  StatusListeners, status, 1)

----------------------------------------------------------------------------
(* Stream session and reconnection policy *)

\* disconnect() that drops the handle without closing it
disconnectNoClose(s) ==
    LET s1 == [s EXCEPT !.shouldReconnect = FALSE,
                        !.eventSource = 0,
                        !.isConnected = FALSE,
                        !.timers = [i \in 1..Len(s.timers) |->
                                       [s.timers[i] EXCEPT !.stale = TRUE]]]
    IN  notifyConnectionListeners(s1, "disconnected")

\* disconnect() that also starts the attempt count afresh
disconnectResets(s) ==
    LET s1 == [s EXCEPT !.shouldReconnect = FALSE,
                        !.reconnectAttempts = 0,
                        !.timers = [i \in 1..Len(s.timers) |->
                                       [s.timers[i] EXCEPT !.stale = TRUE]]]
        s2 == IF s1.eventSource # 0
              THEN [s1 EXCEPT !.handles[s1.eventSource].readyState = CLOSED,
                              !.eventSource = 0]
              ELSE s1
    IN  notifyConnectionListeners([s2 EXCEPT !.isConnected = FALSE],
                                  "disconnected")

\* disconnect() without the isConnected = false of line 204
disconnectStaysConnected(s) ==
    LET s1 == [s EXCEPT !.shouldReconnect = FALSE,
                        !.timers = [i \in 1..Len(s.timers) |->
                                       [s.timers[i] EXCEPT !.stale = TRUE]]]
        s2 == IF s1.eventSource # 0
              THEN [s1 EXCEPT !.handles[s1.eventSource].readyState = CLOSED,
                              !.eventSource = 0]
              ELSE s1
    IN  notifyConnectionListeners(s2, "disconnected")

\* disconnect(); a timer that is pending now has seen a disconnect
disconnect(s) ==
    LET s1 == [s EXCEPT !.shouldReconnect = FALSE,
                        !.timers = [i \in 1..Len(s.timers) |->
                                       [s.timers[i] EXCEPT !.stale = TRUE]]]
        s2 == IF s1.eventSource # 0
              THEN [s1 EXCEPT !.handles[s1.eventSource].readyState = CLOSED,
                              !.eventSource = 0]
              ELSE s1
    IN  notifyConnectionListeners([s2 EXCEPT !.isConnected = FALSE],
                                  "disconnected")

\* connect(token), lines 21-45: up to the creation of the EventSource; the
\* callbacks it wires are the actions below.  The url carries the token and,
\* for a tunnelling-proxy origin, the ngrok-skip-browser-warning parameter.
connect(s, token) ==
    LET s1 == IF s.eventSource # 0 THEN disconnect(s) ELSE s
    IN  IF token = NoToken
        THEN s1
        ELSE [s1 EXCEPT !.lastToken = token,
                        !.handles = Append(@, [token |-> token,
                                               skipWarning |->
                                                   includesNgrok(s.apiBaseUrl),
                                               readyState |-> CONNECTING,
                                               opened |-> FALSE,
                                               failed |-> FALSE]),
                        !.eventSource = Len(s1.handles) + 1]

\* Whether connect(token) in s constructs an EventSource
Creates(s, token) == token # NoToken

\* handleReconnect with the delay computed before the increment
handleReconnectOldCount(s, token) ==
    IF s.reconnectAttempts < maxReconnectAttempts
    THEN [s EXCEPT !.reconnectAttempts = @ + 1,
                   !.timers = Append(@, [token |-> token,
                                         delay |-> reconnectDelay
                                                     * s.reconnectAttempts,
                                         stale |-> FALSE])]
    ELSE emit(s, "connection_failed", "error:Max reconnection attempts reached")

handleReconnect(s, token) ==
    IF s.reconnectAttempts < maxReconnectAttempts
    THEN LET n == s.reconnectAttempts + 1
         IN  [s EXCEPT !.reconnectAttempts = n,
                       !.timers = Append(@, [token |-> token,
                                             delay |-> reconnectDelay * n,
                                             stale |-> FALSE])]
    ELSE emit(s, "connection_failed", "error:Max reconnection attempts reached")

\* onopen that leaves the attempt count as it is
onopenKeepsCount(s) ==
    LET s1 == [s EXCEPT !.isConnected = TRUE]
    IN  notifyConnectionListeners(emit(s1, "connected", "status:connected"),
                                  "connected")

\* eventSource.onopen
onopen(s) ==
    LET s1 == [s EXCEPT !.isConnected = TRUE, !.reconnectAttempts = 0]
    IN  notifyConnectionListeners(emit(s1, "connected", "status:connected"),
                                  "connected")

\* onerror that goes on to reconnect without looking at shouldReconnect
onerrorIgnoresFlag(s, token) ==
    IF s.eventSource = 0
    THEN [s EXCEPT !.step.uncaught = TRUE]
    ELSE LET s1 == notifyConnectionListeners(
                       [s EXCEPT !.isConnected = FALSE], "disconnected")
         IN  IF s1.eventSource = 0
             THEN [s1 EXCEPT !.step.uncaught = TRUE]
             ELSE IF s1.handles[s1.eventSource].readyState = CLOSED
                  THEN IF s1.tokenRefreshCallback /\ s1.reconnectAttempts = 0
                       THEN [s1 EXCEPT !.refreshing =
                                           Append(@, [token |-> token])]
                       ELSE handleReconnect(s1, token)
                  ELSE s1

\* eventSource.onerror of the handle connect(token) created, up to its await
\* or its end.  Reading this.eventSource.readyState throws when
\* this.eventSource is null.
onerror(s, token) ==
    IF s.eventSource = 0
    THEN [s EXCEPT !.step.uncaught = TRUE]
    ELSE LET s1 == notifyConnectionListeners(
                       [s EXCEPT !.isConnected = FALSE], "disconnected")
         IN  IF s1.eventSource = 0
             THEN [s1 EXCEPT !.step.uncaught = TRUE]
             ELSE IF /\ s1.handles[s1.eventSource].readyState = CLOSED
                     /\ s1.shouldReconnect
                  THEN IF s1.tokenRefreshCallback /\ s1.reconnectAttempts = 0
                       THEN [s1 EXCEPT !.refreshing =
                                           Append(@, [token |-> token])]
                       ELSE handleReconnect(s1, token)
                  ELSE s1

\* onerror without the return of line 84: it reconnects and also goes on to
\* the reconnection policy
onerrorResumeNoReturn(s, token, outcome) ==
    IF outcome # Rejected /\ outcome # NoToken /\ outcome # s.lastToken
    THEN handleReconnect(connect(s, outcome), token)
    ELSE handleReconnect(s, token)

\* onerror that reconnects with whatever token the hook returns, the one
\* held included
onerrorResumeAnyToken(s, token, outcome) ==
    IF outcome # Rejected /\ outcome # NoToken
    THEN connect(s, outcome)
    ELSE handleReconnect(s, token)

\* The rest of onerror once the token-refresh hook has settled, lines 80-91
onerrorResume(s, token, outcome) ==
    IF outcome # Rejected /\ outcome # NoToken /\ outcome # s.lastToken
    THEN connect(s, outcome)
    ELSE handleReconnect(s, token)

\* The timer callback without the check of shouldReconnect
retryUnchecked(s, token) == connect(s, token)

\* The setTimeout callback of handleReconnect, lines 212-216
retry(s, token) ==
    IF s.shouldReconnect THEN connect(s, token) ELSE s

\* JSON.parse of event.data: the value, or a SyntaxError
JSONparse(text) ==
    CASE text = "[1]" -> [ok |-> TRUE, value |-> "array(1)"]
      [] text = "7" -> [ok |-> TRUE, value |-> "number(7)"]
      [] OTHER -> [ok |-> FALSE, value |-> "SyntaxError"]

\* eventSource.onmessage, lines 54-61: the parse is inside a try/catch
onmessage(s, data) ==
    LET p == JSONparse(data)
    IN  IF p.ok THEN emit(s, "message", p.value) ELSE s

\* The named-event handlers of lines 97-193: the parse is not guarded
onnamed(s, name, data) ==
    IF name = "heartbeat"
    THEN s
    ELSE LET p == JSONparse(data)
         IN  IF ~p.ok
             THEN [s EXCEPT !.step.uncaught = TRUE]
             ELSE IF name \in Forwarded THEN emit(s, name, p.value) ELSE s

----------------------------------------------------------------------------
(* Connection probe *)

\* resolve(verdict) of the promise testConnection returned: only the first
\* call settles it
resolveProbe(probe, verdict) ==
    [probe EXCEPT !.promise = IF @ = "pending" THEN "resolved" ELSE @,
                  !.verdict = IF probe.promise = "pending" THEN verdict ELSE @,
                  !.resolves = @ + 1]

\* testConnection(token) up to the return of the promise, lines 289-309.
\* testUrl is a const: with a tunnelling-proxy origin the += of line 294
\* throws a TypeError inside the executor, which rejects the promise before
\* any EventSource or timer exists.
testConnection(s, token) ==
    IF includesNgrok(s.apiBaseUrl)
    THEN [s EXCEPT !.probes = Append(@, [token |-> token, created |-> FALSE,
                                         readyState |-> CLOSED,
                                         timeout |-> FALSE,
                                         promise |-> "rejected",
                                         verdict |-> "TypeError",
                                         resolves |-> 0])]
    ELSE [s EXCEPT !.probes = Append(@, [token |-> token, created |-> TRUE,
                                         readyState |-> CONNECTING,
                                         timeout |-> TRUE,
                                         promise |-> "pending",
                                         verdict |-> "",
                                         resolves |-> 0])]

\* testEventSource.onopen that also marks the session connected
probeOnopenMarksConnected(s, p) ==
    notifyConnectionListeners(
        [s EXCEPT !.isConnected = TRUE,
                  !.probes[p] = resolveProbe(
                      [@ EXCEPT !.timeout = FALSE, !.readyState = CLOSED],
                      "success:Connection successful")],
        "connected")

\* testEventSource.onopen, lines 310-317
probeOnopen(s, p) ==
    [s EXCEPT !.probes[p] = resolveProbe(
                  [@ EXCEPT !.timeout = FALSE, !.readyState = CLOSED],
                  "success:Connection successful")]

\* testEventSource.onerror, lines 319-328
probeOnerror(s, p) ==
    [s EXCEPT !.probes[p] = resolveProbe(
                  [@ EXCEPT !.timeout = FALSE, !.readyState = CLOSED],
                  "failure:Connection failed")]

\* The setTimeout callback of testConnection, lines 301-308
probeTimeout(s, p) ==
    [s EXCEPT !.probes[p] = resolveProbe(
                  [@ EXCEPT !.timeout = FALSE, !.readyState = CLOSED],
                  "failure:Connection timeout")]

----------------------------------------------------------------------------
(* Initial state: the constructor, lines 4-15 *)

Init ==
    /\ eventSource = 0
    /\ reconnectAttempts = 0
    /\ listeners = <<>>
    /\ isConnected = FALSE
    /\ shouldReconnect = TRUE
    /\ connectionListeners = <<>>
    /\ lastToken = NoToken
    /\ tokenRefreshCallback = FALSE
    /\ handles = <<>>
    /\ timers = <<>>
    /\ refreshing = <<>>
    /\ callerDisconnected = FALSE
    /\ apiBaseUrl \in BaseUrls
    /\ probes = <<>>
    /\ step = NewStep("new", "", "")

\* The constructed service after the application has registered two
\* listeners for 'connected' and two status listeners, a throwing one first
\* in the one and last in the other
InitStatus ==
    /\ eventSource = 0
    /\ reconnectAttempts = 0
    /\ listeners = ("connected" :> <<"g", "f">>)
    /\ isConnected = FALSE
    /\ shouldReconnect = TRUE
    /\ connectionListeners = <<"f", "g">>
    /\ lastToken = NoToken
    /\ tokenRefreshCallback = FALSE
    /\ handles = <<>>
    /\ timers = <<>>
    /\ refreshing = <<>>
    /\ callerDisconnected = FALSE
    /\ apiBaseUrl \in BaseUrls
    /\ probes = <<>>
    /\ step = NewStep("new", "", "")

----------------------------------------------------------------------------
(* Actions *)

Registrations(s) ==
    LET names == DOMAIN s.listeners
        RECURSIVE Sum(_)
        Sum(S) == IF S = {} THEN 0
                  ELSE LET e == CHOOSE x \in S : TRUE
                       IN  Len(s.listeners[e]) + Sum(S \ {e})
    IN  Sum(names) + Len(s.connectionListeners)

\* A handle that can still fire events: close() has not been called on it and
\* it has not failed
Live(h) == h \in 1..Len(handles) /\ handles[h].readyState # CLOSED

\* The caller calls connect(token)
Connect ==
    \E token \in Tokens \cup {NoToken} :
        /\ Creates(Self, token) => Len(handles) < MaxHandles
        /\ Store(connect(Begin("connect", token, ""), token))

\* The caller calls disconnect()
Disconnect ==
    Store(disconnect([Begin("disconnect", "", "")
                         EXCEPT !.callerDisconnected = TRUE]))

SetTokenRefreshCallback ==
    \E set \in BOOLEAN :
        /\ set # tokenRefreshCallback
        /\ Store([Begin("setTokenRefreshCallback", "", "")
                     EXCEPT !.tokenRefreshCallback = set])

\* The transport announces the connection: readyState becomes OPEN and the
\* open event fires
Open ==
    \E h \in 1..Len(handles) :
        /\ handles[h].readyState = CONNECTING
        /\ Store(onopen([Begin("open", handles[h].token, "")
                            EXCEPT !.handles[h].readyState = OPEN,
                                   !.handles[h].opened = TRUE]))

\* The transport loses the connection and will re-establish it: readyState
\* becomes CONNECTING and the error event fires
TransportStall ==
    \E h \in 1..Len(handles) :
        /\ Live(h)
        /\ Store(onerror([Begin("error", handles[h].token, "stall")
                             EXCEPT !.handles[h].readyState = CONNECTING],
                         handles[h].token))

\* The transport fails the connection: readyState becomes CLOSED and the error
\* event fires
TransportFail ==
    \E h \in 1..Len(handles) :
        /\ Live(h)
        /\ Store(onerror([Begin("error", handles[h].token, "fail")
                             EXCEPT !.handles[h].readyState = CLOSED,
                                    !.handles[h].failed = TRUE],
                         handles[h].token))

\* The token-refresh hook settles and a suspended onerror resumes
RefreshSettles ==
    \E i \in 1..Len(refreshing), outcome \in RefreshOutcomes :
        LET s == [Begin("refreshed", outcome, "")
                     EXCEPT !.refreshing = RemoveAt(@, i)]
        IN  /\ Len(onerrorResume(s, refreshing[i].token, outcome).handles)
                   <= MaxHandles
            /\ Store(onerrorResume(s, refreshing[i].token, outcome))

\* A retry timer fires
TimerFires ==
    \E i \in 1..Len(timers) :
        LET s == [Begin("timer", timers[i].token,
                        IF timers[i].stale THEN "stale" ELSE "")
                     EXCEPT !.timers = RemoveAt(@, i)]
        IN  /\ Len(retry(s, timers[i].token).handles) <= MaxHandles
            /\ Store(retry(s, timers[i].token))

\* An unnamed message arrives on an open handle
Message ==
    \E h \in 1..Len(handles), data \in Payloads :
        /\ handles[h].readyState = OPEN
        /\ Store(onmessage(Begin("message", data, "message"), data))

\* A named event arrives on an open handle
NamedEvent ==
    \E h \in 1..Len(handles), name \in WiredNames, data \in Payloads :
        /\ handles[h].readyState = OPEN
        /\ Store(onnamed(Begin("event", data, name), name, data))

On ==
    \E event \in EventNames, cb \in Callbacks :
        /\ Registrations(Self) < MaxRegistrations
        /\ Store(on(Begin("on", cb, event), event, cb))

\* The application registers a callback that unregisters itself when called
OnUnsubscribing ==
    \E event \in EventNames, cb \in Unsubscribing :
        /\ Registrations(Self) < MaxRegistrations
        /\ Store(on(Begin("on", cb, event), event, cb))

Off ==
    \E event \in EventNames, cb \in Callbacks :
        Store(off(Begin("off", cb, event), event, cb))

OnConnectionChange ==
    \E cb \in Callbacks :
        /\ Registrations(Self) < MaxRegistrations
        /\ Store(onConnectionChange(Begin("onConnectionChange", cb, ""), cb))

OffConnectionChange ==
    \E cb \in Callbacks :
        Store(offConnectionChange(Begin("offConnectionChange", cb, ""), cb))

\* The caller calls testConnection(token)
TestConnection ==
    \E token \in Tokens \cup {NoToken} :
        /\ Len(probes) < MaxProbes
        /\ Store(testConnection(Begin("testConnection", token, ""), token))

\* A probe's handle that can still fire events
ProbeLive(p) == probes[p].created /\ probes[p].readyState # CLOSED

\* The transport announces the probe's connection
ProbeOpen ==
    \E p \in 1..Len(probes) :
        /\ probes[p].created
        /\ probes[p].readyState = CONNECTING
        /\ Store(probeOnopen([Begin("probeOpen", probes[p].token, "")
                                 EXCEPT !.probes[p].readyState = OPEN], p))

\* The probe's connection stalls (readyState CONNECTING) or fails (CLOSED),
\* and the error event fires
ProbeError ==
    \E p \in 1..Len(probes), state \in {CONNECTING, CLOSED} :
        /\ ProbeLive(p)
        /\ Store(probeOnerror([Begin("probeError", probes[p].token,
                                     IF state = CLOSED THEN "fail" ELSE "stall")
                                  EXCEPT !.probes[p].readyState = state], p))

\* The 10 second timer of a probe fires
ProbeTimeout ==
    \E p \in 1..Len(probes) :
        /\ probes[p].timeout
        /\ Store(probeTimeout(Begin("probeTimeout", probes[p].token, ""), p))

\* The session: the caller's connect/disconnect and the transport, timer and
\* token-refresh callbacks
Next ==
    \/ Connect
    \/ Disconnect
    \/ SetTokenRefreshCallback
    \/ Open
    \/ TransportStall
    \/ TransportFail
    \/ RefreshSettles
    \/ TimerFires

Spec == Init /\ [][Next]_vars

\* The session with listeners for 'connected' and status listeners in place
SpecStatus == InitStatus /\ [][Next]_vars

\* The caller's first connect()
FirstConnect == handles = <<>> /\ Connect

\* The registry and the broadcaster over one connection: registrations come
\* and go while the session connects, opens, receives events and is
\* disconnected
NextRegistry ==
    \/ On
    \/ Off
    \/ OnConnectionChange
    \/ OffConnectionChange
    \/ FirstConnect
    \/ Open
    \/ Message
    \/ NamedEvent
    \/ Disconnect

SpecRegistry == Init /\ [][NextRegistry]_vars

\* The registry with self-removing callbacks over one connection
NextReentrant ==
    \/ On
    \/ OnUnsubscribing
    \/ Off
    \/ FirstConnect
    \/ Open
    \/ NamedEvent

SpecReentrant == Init /\ [][NextReentrant]_vars

\* The probe beside one connection of the session that opens, fails or is
\* disconnected, with status listeners registered
NextProbe ==
    \/ TestConnection
    \/ ProbeOpen
    \/ ProbeError
    \/ ProbeTimeout
    \/ OnConnectionChange
    \/ FirstConnect
    \/ Open
    \/ TransportFail
    \/ Disconnect

SpecProbe == Init /\ [][NextProbe]_vars

----------------------------------------------------------------------------
(* Properties *)

Closed(h) == handles[h].readyState = CLOSED

\* C1: at most one primary transport handle is live at any instant, it is the
\* one this.eventSource holds, and right after the caller's connect(T') the
\* live handle is the one opened for T' and every earlier handle is closed.
C1_OneLiveHandle ==
    /\ \A h \in 1..Len(handles) : ~Closed(h) => h = eventSource
    /\ (step.op = "connect" /\ step.arg # NoToken) =>
          /\ eventSource = Len(handles)
          /\ handles[eventSource].token = step.arg
          /\ ~Closed(eventSource)
          /\ \A h \in 1..(Len(handles) - 1) : Closed(h)

\* connect(T) immediately followed by connect(T'): the handle of T was closed
\* before it opened or failed, the handle of T' is the live one
C1_Witness ==
    /\ step.op = "connect"
    /\ Len(handles) = 2
    /\ handles[1].token = "t1" /\ handles[2].token = "t2"
    /\ Closed(1) /\ ~handles[1].opened /\ ~handles[1].failed
    /\ eventSource = 2 /\ ~Closed(2)

\* The session is at rest after a failure: the handle held has failed, no
\* retry timer is pending and no error handler awaits the token-refresh hook
Quiescent ==
    /\ eventSource # 0
    /\ handles[eventSource].failed
    /\ timers = <<>>
    /\ refreshing = <<>>

\* Every connection attempt so far ended in a terminal transport error
\* without opening, all with the same token (no refreshed token was used), no
\* token-refresh hook is registered and the caller never called disconnect()
AlwaysFailing ==
    /\ handles # <<>>
    /\ \A h \in 1..Len(handles) :
          /\ handles[h].failed
          /\ ~handles[h].opened
          /\ handles[h].token = handles[1].token
    /\ ~tokenRefreshCallback
    /\ ~callerDisconnected

\* C2: when every attempt fails terminally, no refreshed token arrives and the
\* caller never disconnects, the failure after which no retry is pending is
\* the one that finds reconnectAttempts = maxReconnectAttempts and emits
\* 'connection_failed' once.
C2_Exhaustion ==
    (AlwaysFailing /\ Quiescent /\ step.op = "error") =>
        /\ reconnectAttempts = maxReconnectAttempts
        /\ step.emitted =
              <<[event |-> "connection_failed",
                 data |-> "error:Max reconnection attempts reached"]>>

\* C3: reconnectAttempts stays within 0..maxReconnectAttempts; it becomes 0
\* only in the open callback, and every other change is an increment by one
\* that comes with one more retry timer.
C3_AttemptCount ==
    /\ [](reconnectAttempts \in 0..maxReconnectAttempts)
    /\ [][reconnectAttempts' # reconnectAttempts =>
            \/ step'.op = "open" /\ reconnectAttempts' = 0
            \/ /\ reconnectAttempts' = reconnectAttempts + 1
               /\ Len(timers') = Len(timers) + 1]_vars

\* An open has reset the count that a scheduled retry, still pending, had
\* incremented
C3_Witness ==
    /\ step.op = "open"
    /\ reconnectAttempts = 0
    /\ Len(timers) = 1

\* The delays of the spec's example, attempts 1 to 5
RetryDelays == <<1000, 2000, 3000, 4000, 5000>>

\* C4: the retry timer of the nth attempt since the last open has delay
\* reconnectDelay * n, n being the count after its increment: handleReconnect
\* applied with n - 1 attempts made schedules the nth delay of 1000..5000,
\* and every timer the session schedules carries reconnectDelay times the
\* count it has just incremented.
C4_RetryDelay ==
    /\ [](\A n \in 1..maxReconnectAttempts : \A token \in Tokens :
            LET r == handleReconnect(
                         [Self EXCEPT !.reconnectAttempts = n - 1], token)
            IN  /\ r.reconnectAttempts = n
                /\ Len(r.timers) = Len(timers) + 1
                /\ r.timers[Len(r.timers)].delay = RetryDelays[n]
                /\ r.timers[Len(r.timers)].delay = reconnectDelay * n)
    /\ [][Len(timers') = Len(timers) + 1 =>
            /\ reconnectAttempts' = reconnectAttempts + 1
            /\ timers'[Len(timers')].delay
                  = reconnectDelay * reconnectAttempts']_vars

\* The first retry is pending with the first delay
C4_Witness ==
    /\ step.op = "error"
    /\ reconnectAttempts = 1
    /\ Len(timers) = 1
    /\ timers[1].delay = 1000

\* C5: a retry timer that was pending when disconnect() ran creates no
\* transport handle when it fires and leaves this.eventSource as it is.
C5_StaleRetry ==
    [][(step'.op = "timer" /\ step'.name = "stale") =>
          /\ handles' = handles
          /\ eventSource' = eventSource]_vars

\* A timer fired after the caller's disconnect() and nothing was opened
C5_Witness ==
    /\ step.op = "timer"
    /\ step.name = "stale"
    /\ callerDisconnected
    /\ eventSource = 0

\* C6: when the token-refresh hook awaited by the error handler resolves to a
\* non-empty token other than lastToken, the session connects with that token
\* at once: one new handle bound to it, no retry timer added, reconnectAttempts
\* unchanged.
C6_RefreshReconnects ==
    [][(/\ step'.op = "refreshed"
        /\ step'.arg \in Tokens
        /\ step'.arg # lastToken) =>
          /\ Len(handles') = Len(handles) + 1
          /\ eventSource' = Len(handles')
          /\ handles'[eventSource'].token = step'.arg
          /\ handles'[eventSource'].readyState = CONNECTING
          /\ lastToken' = step'.arg
          /\ Len(timers') = Len(timers)
          /\ reconnectAttempts' = reconnectAttempts
          /\ reconnectAttempts' = 0]_vars

\* The hook gave a new token after the first handle failed, and the session
\* holds a handle for the new token with no retry scheduled
C6_Witness ==
    /\ step.op = "refreshed"
    /\ Len(handles) = 2
    /\ handles[1].failed
    /\ handles[2].token = step.arg
    /\ handles[2].token # handles[1].token
    /\ eventSource = 2
    /\ timers = <<>>
    /\ reconnectAttempts = 0

\* C7: connect() with a missing token has no side effect: handle, isConnected,
\* shouldReconnect, reconnectAttempts and lastToken stay as they are and no
\* status is notified.
C7_NoTokenNoEffect ==
    [][(step'.op = "connect" /\ step'.arg = NoToken) =>
          /\ UNCHANGED <<eventSource, handles, isConnected, shouldReconnect,
                         reconnectAttempts, lastToken>>
          /\ step'.notified = <<>>]_vars

\* C8: a malformed payload on a named event is swallowed: nothing escapes the
\* handler, no listener is invoked and the session state is unchanged.
C8_MalformedSwallowed ==
    [][(step'.op = "event" /\ ~JSONparse(step'.arg).ok) =>
          /\ ~step'.uncaught
          /\ step'.invoked = <<>>
          /\ UNCHANGED <<eventSource, handles, isConnected, shouldReconnect,
                         reconnectAttempts, lastToken, listeners,
                         connectionListeners, timers, refreshing>>]_vars

\* The calls a complete fan-out of arg to callbacks makes
FanOut(callbacks, arg) ==
    [i \in 1..Len(callbacks) |-> [cb |-> callbacks[i], arg |-> arg]]

Registered(event) ==
    IF event \in DOMAIN listeners THEN listeners[event] ELSE <<>>

RECURSIVE EmitCalls(_)
EmitCalls(emitted) ==
    IF emitted = <<>> THEN <<>>
    ELSE FanOut(Registered(Head(emitted).event), Head(emitted).data)
            \o EmitCalls(Tail(emitted))

RECURSIVE NotifyCalls(_)
NotifyCalls(notified) ==
    IF notified = <<>> THEN <<>>
    ELSE FanOut(connectionListeners, Head(notified))
            \o NotifyCalls(Tail(notified))

\* The steps that emit before they notify, or do only one of the two
EmitsThenNotifies == {"open", "event", "message", "disconnect", "connect"}

\* C9: every emit and every status notification of a step reaches all the
\* callbacks registered, throwing or not, in order, and no callback's
\* exception leaves emit or notifyConnectionListeners: the only exception that
\* leaves a step is a parse error.
C9_FaultIsolation ==
    /\ step.op \in EmitsThenNotifies =>
          step.invoked = EmitCalls(step.emitted) \o NotifyCalls(step.notified)
    /\ step.uncaught => (step.op = "event" /\ ~JSONparse(step.arg).ok)

\* On an open, the throwing callback registered first for 'connected' was
\* followed by the one registered after it, and the status listener, which
\* throws too, was still notified
C9_Witness ==
    /\ step.op = "open"
    /\ Registered("connected") = <<"g", "f">>
    /\ connectionListeners = <<"g">>
    /\ Len(step.invoked) = 3
    /\ step.invoked[2] = [cb |-> "f", arg |-> "status:connected"]
    /\ step.invoked[3] = [cb |-> "g", arg |-> "connected"]
    /\ ~step.uncaught

\* after is before without its first cb, or before itself when it has none
FirstRemoved(before, after, cb) ==
    IF \A k \in 1..Len(before) : before[k] # cb
    THEN after = before
    ELSE \E k \in 1..Len(before) :
            /\ before[k] = cb
            /\ \A j \in 1..(k - 1) : before[j] # cb
            /\ Len(after) = Len(before) - 1
            /\ \A j \in 1..(k - 1) : after[j] = before[j]
            /\ \A j \in k..Len(after) : after[j] = before[j + 1]

Count(seq, x) == Cardinality({i \in 1..Len(seq) : seq[i] = x})

\* C10: on appends to the callbacks of its event name, duplicates included,
\* off removes the first occurrence of its callback and nothing else, no other
\* step changes the registry, and an emit invokes each callback once per
\* registration.
C10_RegistryOrder ==
    /\ [][/\ step'.op = "on" =>
               /\ step'.name \in DOMAIN listeners'
               /\ listeners'[step'.name] =
                     Append(Registered(step'.name), step'.arg)
               /\ \A e \in DOMAIN listeners' \ {step'.name} :
                     e \in DOMAIN listeners /\ listeners'[e] = listeners[e]
          /\ step'.op = "off" =>
               /\ DOMAIN listeners' = DOMAIN listeners
               /\ \A e \in DOMAIN listeners :
                     IF e = step'.name
                     THEN FirstRemoved(listeners[e], listeners'[e], step'.arg)
                     ELSE listeners'[e] = listeners[e]
          /\ step'.op \notin {"on", "off"} => listeners' = listeners]_vars
    /\ [](step.op = "event" /\ step.emitted # <<>> =>
            \A cb \in Callbacks :
                Count(step.invoked, [cb |-> cb, arg |-> step.emitted[1].data])
                    = Count(Registered(step.name), cb))

\* An off of g left the f and the later g of the name in place
C10_Witness ==
    /\ step.op = "off"
    /\ step.name = "notification"
    /\ step.arg = "g"
    /\ Registered("notification") = <<"f", "g">>

\* C11: every call of testConnection resolves with a verdict exactly once and
\* no later than its timeout: its promise is never rejected, while it is
\* pending its handle exists and the timeout is armed, and once it is resolved
\* resolve has run once and the probe's handle is closed.
C11_ProbeResolves ==
    \A p \in 1..Len(probes) :
        /\ probes[p].promise # "rejected"
        /\ probes[p].promise = "pending" =>
              probes[p].created /\ probes[p].timeout
        /\ probes[p].promise = "resolved" =>
              /\ probes[p].resolves = 1
              /\ probes[p].readyState = CLOSED
              /\ ~probes[p].timeout

ProbeOps == {"testConnection", "probeOpen", "probeError", "probeTimeout"}

\* C12: a step of testConnection or of one of its callbacks leaves the primary
\* session as it is (handle, flags, attempt count, token, registry, status
\* listeners, timers, suspended handlers) and invokes no listener.
C12_ProbeFrame ==
    [][step'.op \in ProbeOps =>
          /\ UNCHANGED <<eventSource, handles, isConnected, shouldReconnect,
                         reconnectAttempts, lastToken, listeners,
                         connectionListeners, timers, refreshing,
                         tokenRefreshCallback>>
          /\ step'.invoked = <<>>
          /\ step'.notified = <<>>
          /\ step'.emitted = <<>>]_vars

\* A probe resolved with success while the session's own handle was still
\* connecting and a status listener was registered
C12_Witness ==
    /\ step.op = "probeOpen"
    /\ probes[1].promise = "resolved"
    /\ probes[1].verdict = "success:Connection successful"
    /\ eventSource # 0
    /\ handles[eventSource].readyState = CONNECTING
    /\ ~isConnected
    /\ connectionListeners # <<>>

\* C13: an open of the primary handle leaves isConnected true and
\* reconnectAttempts 0, emits 'connected' once and notifies 'connected' once:
\* every listener of the 'connected' event and every status listener is
\* invoked once per registration.
C13_OpenAnnounced ==
    step.op = "open" =>
        /\ isConnected
        /\ reconnectAttempts = 0
        /\ step.emitted =
              <<[event |-> "connected", data |-> "status:connected"]>>
        /\ step.notified = <<"connected">>
        /\ Len(step.invoked)
              = Len(Registered("connected")) + Len(connectionListeners)
        /\ \A cb \in Callbacks :
              /\ Count(step.invoked, [cb |-> cb, arg |-> "status:connected"])
                    = Count(Registered("connected"), cb)
              /\ Count(step.invoked, [cb |-> cb, arg |-> "connected"])
                    = Count(connectionListeners, cb)

\* A handle opened while the retry scheduled for an earlier failure was still
\* pending: the count that retry had incremented is 0 again and the four
\* listeners were invoked
C13_Witness ==
    /\ step.op = "open"
    /\ Len(timers) = 1
    /\ handles[1].failed
    /\ reconnectAttempts = 0
    /\ isConnected
    /\ Len(step.invoked) = 4

\* C14: every transport error leaves isConnected false and notifies
\* 'disconnected' once; when the handle is not closed (a stall) or
\* auto-reconnect is off, that is all: no hook call, no retry timer, no change
\* of reconnectAttempts, no connect() and nothing emitted.
C14_ErrorFrame ==
    [][step'.op = "error" =>
          /\ ~isConnected'
          /\ step'.notified = <<"disconnected">>
          /\ (step'.name = "stall" \/ ~shouldReconnect) =>
                /\ UNCHANGED <<refreshing, timers, reconnectAttempts,
                               eventSource, lastToken, shouldReconnect>>
                /\ Len(handles') = Len(handles)
                /\ step'.emitted = <<>>]_vars

\* The handle failed for good with auto-reconnect off and a hook registered:
\* the hook is not awaited and no retry is pending
C14_Witness ==
    /\ step.op = "error"
    /\ step.name = "fail"
    /\ ~shouldReconnect
    /\ tokenRefreshCallback
    /\ reconnectAttempts = 0
    /\ refreshing = <<>>
    /\ timers = <<>>
    /\ ~isConnected

\* The retry handleReconnect schedules for token on its nth attempt
RetryTimer(token, n) ==
    [token |-> token, delay |-> reconnectDelay * n, stale |-> FALSE]

\* C15: on a terminal error with auto-reconnect on, the hook is awaited once
\* if it is registered and reconnectAttempts = 0, and not otherwise; without
\* the hook, and when the hook rejects or returns an empty token or the token
\* held, reconnectAttempts grows by one and one retry is scheduled with the
\* token of the handle that failed, and no handle is created.
C15_HookThenPolicy ==
    [][/\ (step'.op = "error" /\ step'.name = "fail" /\ shouldReconnect) =>
            IF tokenRefreshCallback /\ reconnectAttempts = 0
            THEN /\ refreshing' = Append(refreshing, [token |-> step'.arg])
                 /\ UNCHANGED <<timers, reconnectAttempts>>
            ELSE /\ refreshing' = refreshing
                 /\ reconnectAttempts' = reconnectAttempts + 1
                 /\ timers' = Append(timers,
                                     RetryTimer(step'.arg, reconnectAttempts'))
       /\ (step'.op = "error" /\ Len(refreshing') > Len(refreshing)) =>
            /\ tokenRefreshCallback
            /\ reconnectAttempts = 0
            /\ step'.name = "fail"
            /\ shouldReconnect
       /\ (step'.op = "refreshed"
             /\ step'.arg \in {Rejected, NoToken, lastToken}) =>
            /\ reconnectAttempts' = reconnectAttempts + 1
            /\ \E i \in 1..Len(refreshing) :
                  /\ refreshing' = RemoveAt(refreshing, i)
                  /\ timers' = Append(timers,
                                      RetryTimer(refreshing[i].token,
                                                 reconnectAttempts'))
            /\ UNCHANGED <<handles, eventSource, lastToken>>]_vars

\* The hook returned the token the session holds: the failed handle is still
\* the one held and its retry is pending
C15_Witness ==
    /\ step.op = "refreshed"
    /\ step.arg = lastToken
    /\ step.arg \in Tokens
    /\ Len(handles) = 1
    /\ handles[1].failed
    /\ reconnectAttempts = 1
    /\ timers = <<RetryTimer(handles[1].token, 1)>>

\* C16: connect() leaves shouldReconnect as it is, whoever calls it (the
\* caller, a retry timer, the error handler after a token refresh) and whether
\* or not it first releases a handle.
C16_ConnectKeepsAutoReconnect ==
    [][step'.op \in {"connect", "timer", "refreshed"} =>
          shouldReconnect' = shouldReconnect]_vars

\* C17: when the caller has called disconnect() while an error handler awaits
\* the token-refresh hook and has not connected since (no handle is held), the
\* handler's resumption, whatever the hook's result, creates no handle and
\* this.eventSource stays null.
C17_DisconnectCancelsRefresh ==
    [][(step'.op = "refreshed" /\ callerDisconnected /\ eventSource = 0) =>
          /\ eventSource' = 0
          /\ handles' = handles]_vars

\* C18: when an error handler suspended on the token-refresh hook resumes
\* while the session holds another handle, one that has not failed and so
\* replaced the handler's own, the resumption neither closes nor replaces that
\* handle and does not change reconnectAttempts.
C18_StaleHandlerInert ==
    [][(/\ step'.op = "refreshed"
        /\ eventSource # 0
        /\ ~handles[eventSource].failed) =>
          /\ eventSource' = eventSource
          /\ handles' = handles
          /\ reconnectAttempts' = reconnectAttempts]_vars

\* C20: whenever isConnected is true the session holds a handle that has
\* opened and is not closed, and after disconnect() and after every transport
\* error isConnected is false.
C20_ConnectedMeansOpen ==
    /\ isConnected =>
          /\ eventSource # 0
          /\ handles[eventSource].opened
          /\ ~Closed(eventSource)
    /\ step.op \in {"disconnect", "error"} => ~isConnected

\* The session is connected on its second handle after the first one, which
\* had opened too, was released
C20_Witness ==
    /\ isConnected
    /\ eventSource = 2
    /\ handles[2].readyState = OPEN
    /\ handles[1].opened
    /\ Closed(1)

\* C19: an emit invokes every callback registered for the name when the emit
\* starts, once per registration and in registration order, also when a
\* callback calls off() on itself during the fan-out.
C19_EmitReachesAll ==
    [][(step'.op = "event" /\ step'.emitted # <<>>) =>
          step'.invoked
              = FanOut(Registered(step'.name), step'.emitted[1].data)]_vars

====
